---- MODULE Spec2Model ----
(***************************************************************************)
(* Share-token store, share API, /mcp worker entry and the MCP agent of    *)
(* the remote MCP server, as state machines.                               *)
(*                                                                         *)
(*   Spec      : share store (share-store.ts, its cached variant, the      *)
(*               ShareDo Durable Object), POST /api/create-share and       *)
(*               /api/revoke-share, and the /mcp worker entry.             *)
(*   SpecAgent : the MyMCP agent of index.ts serving POST requests.        *)
(*   SpecClient: the registry clients (XanoClient, JSON-RPC and REST).     *)
(*   SpecSSE   : one streaming connection and its keep-alive timer.        *)
(***************************************************************************)
EXTENDS Integers, Sequences, FiniteSets, TLC

\* ---------------------------------------------------------------- bounds
NumCallers == 2     \* callers, each with an upstream (Xano) credential and a user id
MaxTicks == 1       \* clock advances in one behaviour
MaxPings == 3       \* times the keep-alive timer of a connection fires
NumRequests == 2    \* requests the agent serves in one behaviour

\* ------------------------------------------------------------- constants
SHARE_TTL_MS == 24 * 60 * 60 * 1000

\* Strings are modelled as <<kind, n>>; None is the empty / absent string.
None == <<"", 0>>
\* the tokens generateToken() hands out, in this order
Tokens == { <<"share", 1>>, <<"share", 2>> }
Creds == { <<"xano", i>> : i \in 1..NumCallers }
Users == { <<"user", i>> : i \in 1..NumCallers }
\* a well-formed token string that generateToken() never returns
Unknown == <<"share", 0>>
Bearers == Tokens \cup {Unknown} \cup Creds

\* ShareRecord { xanoToken, userId, expiresAt }; NoRec is `undefined`.
NoRec == [xanoToken |-> None, userId |-> None, expiresAt |-> -1]
\* the record literal with its two string fields exchanged
ShareRecord_swapped(xanoToken, userId, expiresAt) ==
  [xanoToken |-> userId, userId |-> xanoToken, expiresAt |-> expiresAt]
ShareRecord(xanoToken, userId, expiresAt) ==
  [xanoToken |-> xanoToken, userId |-> userId, expiresAt |-> expiresAt]

VARIABLES
  impl,      \* "plain": src/share-store.ts, "cached": the variant with a memory cache in front of SHARE_DO
  hasDO,     \* env.SHARE_DO is bound
  store,     \* the module-level Map<string, ShareRecord>
  doData,    \* per token name, the "data" key of that ShareDo's storage
  now,       \* Date.now()
  ticks,     \* clock advances so far
  issued,    \* tokens generateToken() has returned
  issuedAt,  \* history: per token, the instant create-share issued it at (-1: not issued)
  revoked,   \* history: tokens for which revokeShare has completed
  last,      \* history: the last operation and what it returned
  \* the MyMCP agent every request is forwarded to (idFromName("main"))
  sessionId,        \* this.sessionId
  props,            \* this.props
  userToken,        \* the token xanoClient.setUserToken was last given
  toolsRegistered,  \* this.toolsRegistered
  \* the requests the agent is serving
  pc,        \* per request, the await it is suspended at
  inp,       \* per request, what the client sent
  loc,       \* per request, the locals of executeTool
  call,      \* history: per request, the registry call it made last
  resp,      \* per request, the response returned
  sessFailed, \* history: per request, whether its registerSession call failed
  registrations, \* times registerTools has called this.server.tool for the registry's tool
  regFailed,  \* history: per request, whether the registry call behind its listing or execution failed
  \* a registry client (XanoClient) and its last call
  clientImpl, \* which XanoClient: "jsonrpc" (xano-client.ts), "jsonrpcStrict", "rest"
  cCall,      \* the method called and what the registry replied
  cOut,       \* what the method returned or that it threw
  \* one streaming (SSE) connection
  sseImpl,    \* "writer" (index.ts onSSE), "controller" (ReadableStream start), "transport" (transport.start)
  ssePc,      \* where the handler is
  sseTools,   \* how the tools fetch for tools_list went
  events,     \* the events written to the stream so far
  peer,       \* "open", "gone" (the peer disconnected) or "closed" (the server closed the stream)
  interval,   \* the setInterval keep-alive timer is set
  lifetime,   \* the setTimeout of the maximum lifetime is pending
  pings,      \* times the keep-alive timer has fired
  pingAfterEnd, \* history: a ping was attempted after the connection had ended
  backpressure, \* a write to the TransformStream settles only once a reader takes the chunk
  \* one call of dynamicExecuteTool (part_007)
  toolDef,    \* the tool definition it was called with
  exPc,       \* where the call is
  ran,        \* history: the executors it has invoked, in order
  exResult,   \* `result`, what the executor returned
  exOut       \* what the call returned, or the error it threw

shareVars == <<impl, hasDO, store, doData, now, ticks, issued, issuedAt, revoked, last>>
agentVars == <<sessionId, props, userToken, toolsRegistered, pc, inp, loc, call, resp, sessFailed,
              regFailed, registrations>>
clientVars == <<clientImpl, cCall, cOut>>
sseVars == <<sseImpl, ssePc, sseTools, events, peer, interval, lifetime, pings, pingAfterEnd,
            backpressure>>
execVars == <<toolDef, exPc, ran, exResult, exOut>>
vars == <<shareVars, agentVars, clientVars, sseVars, execVars>>

\* ------------------------------------------------------------ Map helpers
MapGet(m, k) == IF k \in DOMAIN m THEN m[k] ELSE NoRec
MapSet(m, k, v) == IF k \in DOMAIN m THEN [m EXCEPT ![k] = v] ELSE m
MapDelete(m, k) == IF k \in DOMAIN m THEN [m EXCEPT ![k] = NoRec] ELSE m

\* an expiry test that compares the wrong way round
IsExpired_reversed(rec, t) == rec.expiresAt > t
\* rec.expiresAt < Date.now()
IsExpired(rec, t) == rec.expiresAt < t

\* ------------------------------------------------------ ShareDo (utils.ts)
\* ShareDo.fetch: the response and the storage after it.
ShareDoFetch(path, method, data, body, t) ==
  CASE path = "/save" ->
         IF method # "PUT" THEN [status |-> 405, rec |-> NoRec, data |-> data]
         ELSE [status |-> 200, rec |-> NoRec,
               data |-> ShareRecord(body.xanoToken, body.userId, t + SHARE_TTL_MS)]
    [] path = "/get" ->
         IF data = NoRec \/ IsExpired(data, t)
         THEN [status |-> 404, rec |-> NoRec, data |-> data]
         ELSE [status |-> 200, rec |-> data, data |-> data]
    [] path = "/revoke" ->
         IF method # "DELETE" THEN [status |-> 405, rec |-> NoRec, data |-> data]
         ELSE [status |-> 200, rec |-> NoRec, data |-> NoRec]
    [] OTHER -> [status |-> 404, rec |-> NoRec, data |-> data]

\* env.SHARE_DO.get(idFromName(token)).fetch(...): the call reaches the object
\* (reach = "ok") or the stub's fetch rejects (reach = "throw").
Reaches == {"ok", "throw"}

\* What a store operation hands back: raised (it threw), the value returned,
\* and the memory Map and the Durable Object storage after it.
Outcome(raised, result, st, dd) ==
  [raised |-> raised, result |-> result, store |-> st, doData |-> dd]

\* ------------------------------------------------- share-store.ts (plain)
\* st: the memory Map, dd: the Durable Objects' storage, t: Date.now()
saveShare(st, dd, t, token, xanoToken, userId, reach) ==
  IF hasDO THEN
    IF reach = "throw" THEN Outcome(TRUE, NoRec, st, dd)
    ELSE LET r == ShareDoFetch("/save", "PUT", MapGet(dd, token),
                               [xanoToken |-> xanoToken, userId |-> userId], t)
         IN Outcome(FALSE, NoRec, st, MapSet(dd, token, r.data))
  ELSE Outcome(FALSE, NoRec,
               MapSet(st, token, ShareRecord(xanoToken, userId, t + SHARE_TTL_MS)), dd)

getShare(st, dd, t, token, reach) ==
  IF hasDO THEN
    IF reach = "throw" THEN Outcome(TRUE, NoRec, st, dd)
    ELSE LET r == ShareDoFetch("/get", "GET", MapGet(dd, token), NoRec, t)
         IN IF r.status = 200 THEN Outcome(FALSE, r.rec, st, dd)
            ELSE Outcome(FALSE, NoRec, st, dd)
  ELSE LET rec == MapGet(st, token)
       IN IF rec = NoRec THEN Outcome(FALSE, NoRec, st, dd)
          ELSE IF IsExpired(rec, t)
               THEN Outcome(FALSE, NoRec, MapDelete(st, token), dd)
               ELSE Outcome(FALSE, rec, st, dd)

\* a revoke that treats a missing record as an error
revokeShare_strict(st, dd, t, token, reach) ==
  IF hasDO THEN
    IF reach = "throw" \/ MapGet(dd, token) = NoRec THEN Outcome(TRUE, NoRec, st, dd)
    ELSE Outcome(FALSE, NoRec, st, MapSet(dd, token, NoRec))
  ELSE IF MapGet(st, token) = NoRec THEN Outcome(TRUE, NoRec, st, dd)
       ELSE Outcome(FALSE, NoRec, MapDelete(st, token), dd)

revokeShare(st, dd, t, token, reach) ==
  IF hasDO THEN
    IF reach = "throw" THEN Outcome(TRUE, NoRec, st, dd)
    ELSE LET r == ShareDoFetch("/revoke", "DELETE", MapGet(dd, token), NoRec, t)
         IN Outcome(FALSE, NoRec, st, MapSet(dd, token, r.data))
  ELSE Outcome(FALSE, NoRec, MapDelete(st, token), dd)

\* a purge that empties the Map
purgeExpired_all(st, t) ==
  [k \in DOMAIN st |-> NoRec]

purgeExpired(st, t) ==
  [k \in DOMAIN st |-> IF st[k] # NoRec /\ IsExpired(st[k], t) THEN NoRec ELSE st[k]]

\* ---------------------------------- share store with a memory cache (cached)
saveShare_cached(st, dd, t, token, xanoToken, userId, reach) ==
  IF ~hasDO
  THEN Outcome(FALSE, NoRec,
               MapSet(st, token, ShareRecord(xanoToken, userId, t + SHARE_TTL_MS)), dd)
  ELSE IF reach = "throw"
       THEN \* catch: fall back to the memory store
            Outcome(FALSE, NoRec,
                    MapSet(st, token, ShareRecord(xanoToken, userId, t + SHARE_TTL_MS)), dd)
       ELSE LET r == ShareDoFetch("/save", "PUT", MapGet(dd, token),
                                  [xanoToken |-> xanoToken, userId |-> userId], t)
            IN \* a response that is not ok is logged, nothing else
               Outcome(FALSE, NoRec, st, MapSet(dd, token, r.data))

\* the cached lookup, restarting the 24 hours when it fills the cache
getShare_cached_refresh(st, dd, t, token, reach) ==
  LET memoryRecord == MapGet(st, token)
  IN IF memoryRecord # NoRec
     THEN IF IsExpired(memoryRecord, t)
          THEN Outcome(FALSE, NoRec, MapDelete(st, token), dd)
          ELSE Outcome(FALSE, memoryRecord, st, dd)
     ELSE IF hasDO /\ reach = "ok"
          THEN LET r == ShareDoFetch("/get", "GET", MapGet(dd, token), NoRec, t)
               IN IF r.status = 200
                  THEN Outcome(FALSE, r.rec,
                               MapSet(st, token, [r.rec EXCEPT !.expiresAt = t + SHARE_TTL_MS]), dd)
                  ELSE Outcome(FALSE, NoRec, st, dd)
          ELSE Outcome(FALSE, NoRec, st, dd)
getShare_cached(st, dd, t, token, reach) ==
  LET memoryRecord == MapGet(st, token)
  IN IF memoryRecord # NoRec
     THEN IF IsExpired(memoryRecord, t)
          THEN Outcome(FALSE, NoRec, MapDelete(st, token), dd)
          ELSE Outcome(FALSE, memoryRecord, st, dd)
     ELSE IF hasDO /\ reach = "ok"
          THEN LET r == ShareDoFetch("/get", "GET", MapGet(dd, token), NoRec, t)
               IN IF r.status = 200
                  THEN Outcome(FALSE, r.rec, MapSet(st, token, r.rec), dd)
                  ELSE Outcome(FALSE, NoRec, st, dd)
          ELSE \* no SHARE_DO, or the catch block: "Share token not found"
               Outcome(FALSE, NoRec, st, dd)

revokeShare_cached(st, dd, t, token, reach) ==
  IF hasDO THEN
    IF reach = "throw" THEN Outcome(TRUE, NoRec, st, dd)
    ELSE LET r == ShareDoFetch("/revoke", "DELETE", MapGet(dd, token), NoRec, t)
         IN Outcome(FALSE, NoRec, st, MapSet(dd, token, r.data))
  ELSE Outcome(FALSE, NoRec, MapDelete(st, token), dd)

\* The share store the worker is built with.
SaveShare(st, dd, t, token, xanoToken, userId, reach) ==
  IF impl = "plain" THEN saveShare(st, dd, t, token, xanoToken, userId, reach)
  ELSE saveShare_cached(st, dd, t, token, xanoToken, userId, reach)
GetShare(st, dd, t, token, reach) ==
  IF impl = "plain" THEN getShare(st, dd, t, token, reach)
  ELSE getShare_cached(st, dd, t, token, reach)
RevokeShare(st, dd, t, token, reach) ==
  IF impl = "plain" THEN revokeShare(st, dd, t, token, reach)
  ELSE revokeShare_cached(st, dd, t, token, reach)

\* ------------------------------------------------------ requests to /mcp
\* A request: the bearer of its Authorization header, its auth_token query
\* parameter, its x-user-id header and its user_id query parameter (None: absent).
Request(hdrAuth, qAuth, hdrUser, qUser) ==
  [hdrAuth |-> hdrAuth, qAuth |-> qAuth, hdrUser |-> hdrUser, qUser |-> qUser]
NoRequest == Request(None, None, None, None)

\* a || b on strings
OrElse(a, b) == IF a # None THEN a ELSE b

\* (authHeader.match(/^Bearer\s+(.+)$/i) || [])[1] || searchParams.get("auth_token") || ""
ExtractBearer(req) == OrElse(req.hdrAuth, req.qAuth)

\* headers.get("x-user-id") || searchParams.get("user_id") || ""
ExtractUserId(req) == OrElse(req.hdrUser, req.qUser)

\* newHeaders.set("authorization", `Bearer ${share.xanoToken}`); set("x-user-id", share.userId)
RewriteHeaders(req, share) ==
  [req EXCEPT !.hdrAuth = share.xanoToken, !.hdrUser = share.userId]

\* an onConnect that reads the query parameters before the headers
onConnect_queryFirst(req) ==
  LET authToken == OrElse(req.qAuth, req.hdrAuth)
      userId == OrElse(req.qUser, req.hdrUser)
  IN IF authToken = None \/ userId = None
     THEN [raised |-> TRUE, accessToken |-> None, userId |-> None]
     ELSE [raised |-> FALSE, accessToken |-> authToken, userId |-> userId]

\* MyMCP.onConnect: the props the agent serves the forwarded request under;
\* raised when no token or no user id can be read from it.
onConnect(req) ==
  LET authToken == OrElse(req.hdrAuth, req.qAuth)
      userId == OrElse(req.hdrUser, req.qUser)
  IN IF authToken = None \/ userId = None
     THEN [raised |-> TRUE, accessToken |-> None, userId |-> None]
     ELSE [raised |-> FALSE, accessToken |-> authToken, userId |-> userId]

\* What the worker's fetch answers: a status of its own (0 when the answer is
\* the Durable Object's), whether it called MCP_OBJECT, under which name
\* (`${token}:${userId}`), and with which request.
Routed(status, forwarded, name, req) ==
  [status |-> status, forwarded |-> forwarded, name |-> name, req |-> req]
NotRouted(status) == Routed(status, FALSE, <<None, None>>, NoRequest)

\* a share branch that names the Durable Object after the bearer presented
ShareForward_byBearer(req, share) ==
  Routed(0, TRUE, <<ExtractBearer(req), share.userId>>, RewriteHeaders(req, share))

\* if (share) { ...rewrite headers...; return env.MCP_OBJECT.get(id).fetch(newReq) }
ShareForward(req, share) ==
  Routed(0, TRUE, <<share.xanoToken, share.userId>>, RewriteHeaders(req, share))

\* default.fetch for /mcp after `share = await getShare(bearer, env)`, in the
\* entry whose legacy fallback forwards whatever it was issuedAt
RouteMcp(req, share) ==
  IF share # NoRec THEN ShareForward(req, share)
  ELSE Routed(0, TRUE, <<ExtractBearer(req), ExtractUserId(req)>>, req)

\* the same, in the entry whose legacy fallback answers 401
RouteMcpGuarded(req, share) ==
  IF share # NoRec THEN ShareForward(req, share)
  ELSE IF ExtractBearer(req) = None \/ ExtractUserId(req) = None
       THEN NotRouted(401)
       ELSE Routed(0, TRUE, <<ExtractBearer(req), ExtractUserId(req)>>, req)

\* ---------------------------------------------------------------- history
\* The last operation: which, on which key, with which body (create-share),
\* how the Durable Object call went
\* ("none": no call), whether it threw, the HTTP status of an API call, what
\* getShare returned and whether a record was held under the key (by the memory
\* Map for a lookup, by the Map or the Durable Object for a revoke).
Last(op, key, body, reach, raised, status, share, memHit) ==
  [op |-> op, key |-> key, body |-> body, reach |-> reach, raised |-> raised,
   status |-> status, share |-> share, memHit |-> memHit]
NoBody == [xanoToken |-> None, userId |-> None]
NoOp(op) == Last(op, None, NoBody, "none", FALSE, 0, NoRec, FALSE)

\* whether the lookup calls the Durable Object at all
CallsDO(memHit) == hasDO /\ (impl = "plain" \/ ~memHit)

\* a generateToken() that hands out the same token every time
generateToken_reused == <<"share", 1>>
\* crypto.randomUUID(): a token never handed out before
generateToken == <<"share", Cardinality(issued) + 1>>

\* ------------------------------------------------- the MyMCP agent (index.ts)
Reqs == 1..NumRequests
Default == <<"default", 0>>          \* sessionId: string = 'default'
BearerUser == <<"bearer-user", 0>>   \* finalUserId || 'bearer-user'
\* the tools the registry lists, each with an execution endpoint
RegistryTools == { <<"tool", 1>> }

NoProps == [accessToken |-> None, userId |-> None]
\* JSON-RPC ids: a request carries a number (0 is one) ; null is NullId
NullId == -1
\* a request body: whether it parses as JSON, and its method, params.name and id
Body(json, method, tool, id) == [json |-> json, method |-> method, tool |-> tool, id |-> id]
\* { jsonrpc: "2.0", method: "getTools", id: 1 }, used when JSON.parse throws
DefaultRequest == Body(TRUE, "getTools", None, 1)
\* jsonRpcRequest.id || 1
IdOrOne(id) == IF id = 0 \/ id = NullId THEN 1 ELSE id
\* what a client sends: the auth parts, ?sessionId= and the body
Input(auth, sid, body) == [auth |-> auth, sid |-> sid, body |-> body]
NoInput == Input(NoRequest, None, Body(TRUE, "", None, NullId))

\* a call to the registry: the method, the session id and user id it was given,
\* and the user token the client attaches
RegistryCall(method, sid, userId, token) ==
  [method |-> method, sessionId |-> sid, userId |-> userId, token |-> token]
NoCall == RegistryCall("", None, None, None)

\* a response: HTTP status, JSON-RPC error code (0: a result), the id, which
\* handler answered ("initialize", "tools", "result" or "error"), the tools
\* array of a listing and the session block of initialize
Response(status, code, id, kind) ==
  [status |-> status, code |-> code, id |-> id, kind |-> kind,
   tools |-> {}, sessionId |-> None, authenticated |-> FALSE]
NoResponse == Response(0, 0, NullId, "")
\* Object.values(this.server._registeredTools || {}): what registerTools registered
RegisteredTools(registered) == IF registered THEN RegistryTools ELSE {}

\* processRequest: finalAuthToken (the URL parameter first, then the header)
finalAuthToken(auth) == OrElse(auth.qAuth, auth.hdrAuth)
\* processRequest: finalUserId
finalUserId(auth) ==
  IF auth.qAuth = None /\ auth.hdrAuth # None THEN OrElse(auth.qUser, BearerUser)
  ELSE auth.qUser

\* this.props?.user ? this.props.user.id : undefined
PropsUserId(p) == p.userId

\* ------------------------------------------- the registry client (XanoClient)
ClientImpls == {"jsonrpc", "jsonrpcStrict", "rest"}
\* values a method hands back
Payload == <<"payload", 1>>
EmptyList == <<"[]", 0>>
Null == <<"null", 0>>
False == <<"false", 0>>
True == <<"true", 0>>
Undefined == <<"undefined", 0>>
\* no `result` member in the reply
Absent == <<"absent", 0>>
\* what the registry replied: fetch resolved, res.ok, the body has an `error`
\* member, and the `result` member (for the REST client: the body)
Reply(reached, ok, error, result) ==
  [reached |-> reached, ok |-> ok, error |-> error, result |-> result]
NoReply == Reply(FALSE, FALSE, FALSE, Absent)
ClientCallRec(method, reply) == [method |-> method, reply |-> reply]
NoClientCall == ClientCallRec("", NoReply)
\* what a method does: throws, or returns a value
Throws == [raised |-> TRUE, value |-> Undefined]
Returns(v) == [raised |-> FALSE, value |-> v]
NoOut == [raised |-> FALSE, value |-> Absent]

\* xano-client.ts jsonRpcRequest: throw on !res.ok and on 'error' in json,
\* else return json.result
jsonRpcRequest(reply) ==
  IF ~reply.reached THEN Throws
  ELSE IF ~reply.ok THEN Throws
  ELSE IF reply.error THEN Throws
  ELSE Returns(IF reply.result = Absent THEN Undefined ELSE reply.result)

\* the jsonRpcRequest that also throws when the reply has no result
jsonRpcRequest_strict(reply) ==
  IF ~reply.reached THEN Throws
  ELSE IF ~reply.ok THEN Throws
  ELSE IF reply.error THEN Throws
  ELSE IF reply.result = Absent THEN Throws
  ELSE Returns(reply.result)

\* the REST client: try { if (!res.ok) throw ...; return ... } catch { return fallback }
RestCall(reply, onSuccess, fallback) ==
  IF reply.reached /\ reply.ok THEN onSuccess ELSE fallback
BooleanMethods == {"updateSessionActivity", "logMcpRequest", "storeOAuthToken", "storeOAuthState"}
NullableMethods == {"createSession", "validateOAuthState", "getOAuthToken"}
restRequest(method, reply) ==
  CASE method = "getTools" -> RestCall(reply, Returns(reply.result), Returns(EmptyList))
    [] method \in NullableMethods -> RestCall(reply, Returns(reply.result), Returns(Null))
    [] method \in BooleanMethods -> RestCall(reply, Returns(True), Returns(False))
    [] OTHER -> \* executeTool: catch { throw error }
                RestCall(reply, Returns(reply.result), Throws)

\* the methods each client has
ClientMethods(c) ==
  IF c = "jsonrpc"
  THEN {"getTools", "getResources", "createSession", "logMcpRequest", "initialize", "executeTool"}
  ELSE {"getTools", "executeTool"} \cup NullableMethods \cup BooleanMethods

\* a method of the client `c`, called while the registry replies `reply`
ClientRequest(c, method, reply) ==
  CASE c = "jsonrpc" -> jsonRpcRequest(reply)
    [] c = "jsonrpcStrict" -> jsonRpcRequest_strict(reply)
    [] OTHER -> restRequest(method, reply)

ClientInit ==
  /\ clientImpl = "jsonrpc"
  /\ cCall = NoClientCall
  /\ cOut = NoOut

\* ------------------------------------------------- the streaming connection
SseImpls == {"writer", "controller", "transport"}
\* the opening events written with `ready` ahead of the other two
InitialEvents_readyFirst == <<"ready", "server_info", "tools_list">>
\* the events a connection opens with, in the order the handler writes them
InitialEvents == <<"server_info", "tools_list", "ready">>
SseInit ==
  /\ sseImpl = "writer"
  /\ ssePc = "idle"
  /\ sseTools = "unset"
  /\ events = <<>>
  /\ peer = "open"
  /\ interval = FALSE
  /\ lifetime = FALSE
  /\ pings = 0
  /\ pingAfterEnd = FALSE
  /\ backpressure = FALSE

\* ------------------------------------------------------ dynamicExecuteTool
\* values: a string or an object, told apart as `typeof` tells them apart
StringValue(v) == [type |-> "string", v |-> v]
ObjectValue(v) == [type |-> "object", v |-> v]
NoValue == [type |-> "undefined", v |-> None]
\* toolDef.execution: absent, without a type, or with a type
NoExecution == "absent"
ExecutionTypes == {"http", "xano_endpoint", "javascript", "graphql"}
Executions == {NoExecution, ""} \cup ExecutionTypes
\* toolDef.response_transformation: absent, a template, JavaScript code that
\* returns or throws, JavaScript without code, or another type
NoTransformation == "absent"
Transformations == {NoTransformation, "template", "javascript", "javascriptThrows",
                    "javascriptNoCode", "jq"}
ToolDefs == [execution : Executions, response_transformation : Transformations]
NoToolDef == [execution |-> NoExecution, response_transformation |-> NoTransformation]
\* a dispatch that sends http directives to the registry-endpoint executor
ExecutorFor_swapped(type) ==
  IF type = "http" THEN "executeXanoTool"
  ELSE IF type = "xano_endpoint" THEN "executeHttpTool"
  ELSE IF type = "javascript" THEN "executeJavaScriptTool"
  ELSE "none"
\* the if / else if chain on execution.type
ExecutorFor(type) ==
  IF type = "http" THEN "executeHttpTool"
  ELSE IF type = "xano_endpoint" THEN "executeXanoTool"
  ELSE IF type = "javascript" THEN "executeJavaScriptTool"
  ELSE "none"
\* transformResponse(response, transformation, args)
transformResponse(response, transformation) ==
  IF transformation = "template" THEN StringValue(<<"template", response>>)
  ELSE IF transformation = "javascript" THEN ObjectValue(<<"transformFunc", response>>)
  ELSE response      \* the code threw, there is no code, or the type is unknown
\* JSON.stringify
Stringify(value) == <<"json", value.v>>
\* { content: [{ type: "text", text: ... }] }
Envelope(value) ==
  [raised |-> FALSE, error |-> "",
   text |-> IF value.type = "string" THEN value.v ELSE Stringify(value)]
Thrown(message) == [raised |-> TRUE, error |-> message, text |-> None]
NoExOut == [raised |-> FALSE, error |-> "", text |-> None]
ExecInit ==
  /\ toolDef = NoToolDef
  /\ exPc = "idle"
  /\ ran = <<>>
  /\ exResult = NoValue
  /\ exOut = NoExOut

AgentInit ==
  /\ sessionId = Default
  /\ props = NoProps
  /\ userToken = None
  /\ toolsRegistered = FALSE
  /\ pc = [r \in Reqs |-> "idle"]
  /\ inp = [r \in Reqs |-> NoInput]
  /\ loc = [r \in Reqs |-> NoCall]
  /\ call = [r \in Reqs |-> NoCall]
  /\ resp = [r \in Reqs |-> NoResponse]
  /\ sessFailed = [r \in Reqs |-> FALSE]
  /\ regFailed = [r \in Reqs |-> FALSE]
  /\ registrations = 0

\* ------------------------------------------------------------------- Init
Init ==
  /\ impl \in {"plain", "cached"}
  /\ hasDO \in BOOLEAN
  /\ impl = "cached" => hasDO    \* without SHARE_DO the two stores are the same code
  /\ store = [k \in Tokens |-> NoRec]
  /\ doData = [k \in Tokens |-> NoRec]
  /\ now = 0
  /\ ticks = 0
  /\ issued = {}
  /\ issuedAt = [k \in Tokens |-> -1]
  /\ revoked = {}
  /\ last = NoOp("init")
  /\ ExecInit
  /\ AgentInit
  /\ ClientInit
  /\ SseInit

\* ---------------------------------------------------------------- actions
\* POST /api/create-share with a body lacking xanoToken or userId: 400
CreateShareBad(xanoToken, userId) ==
  /\ xanoToken = None \/ userId = None
  /\ last' = [NoOp("create") EXCEPT
                !.body = [xanoToken |-> xanoToken, userId |-> userId], !.status = 400]
  /\ UNCHANGED <<impl, hasDO, store, doData, now, ticks, issued, issuedAt, revoked>>
  /\ UNCHANGED <<agentVars, clientVars, sseVars, execVars>>

\* POST /api/create-share: generateToken(), saveShare, answer {mcpUrl, mcpToken}
CreateShare(xanoToken, userId, reach) ==
  /\ xanoToken # None /\ userId # None
  /\ generateToken \in Tokens
  /\ LET token == generateToken
         o == SaveShare(store, doData, now, token, xanoToken, userId, reach)
     IN /\ store' = o.store
        /\ doData' = o.doData
        /\ issued' = issued \cup {token}
        /\ issuedAt' = [issuedAt EXCEPT ![token] = now]
        /\ last' = [NoOp("create") EXCEPT
                      !.key = token,
                      !.body = [xanoToken |-> xanoToken, userId |-> userId],
                      !.reach = IF hasDO THEN reach ELSE "none",
                      !.raised = o.raised,
                      !.status = IF o.raised THEN 500 ELSE 200]
  /\ UNCHANGED <<impl, hasDO, now, ticks, revoked>>
  /\ UNCHANGED <<agentVars, clientVars, sseVars, execVars>>

\* POST /api/revoke-share without mcpToken: 400
RevokeShareBad ==
  /\ last' = [NoOp("revoke") EXCEPT !.status = 400]
  /\ UNCHANGED <<impl, hasDO, store, doData, now, ticks, issued, issuedAt, revoked>>
  /\ UNCHANGED <<agentVars, clientVars, sseVars, execVars>>

\* POST /api/revoke-share: revokeShare, answer {ok: true}
RevokeShareReq(mcpToken, reach) ==
  /\ mcpToken # None
  /\ LET o == RevokeShare(store, doData, now, mcpToken, reach)
     IN /\ store' = o.store
        /\ doData' = o.doData
        /\ revoked' = IF o.raised THEN revoked ELSE revoked \cup {mcpToken}
        /\ last' = [NoOp("revoke") EXCEPT
                      !.key = mcpToken,
                      !.memHit = MapGet(store, mcpToken) # NoRec \/ MapGet(doData, mcpToken) # NoRec,
                      !.reach = IF hasDO THEN reach ELSE "none",
                      !.raised = o.raised,
                      !.status = IF o.raised THEN 500 ELSE 200]
  /\ UNCHANGED <<impl, hasDO, now, ticks, issued, issuedAt>>
  /\ UNCHANGED <<agentVars, clientVars, sseVars, execVars>>

\* GET|POST /mcp at the worker entry, for a request whose bearer is `bearer`:
\* `share = await getShare(bearer, env)`. What the worker then answers is
\* RouteMcp(req, last.share) (RouteMcpGuarded in the other entry): it changes
\* no state of the worker.
McpFetch(bearer, reach) ==
  LET memHit == MapGet(store, bearer) # NoRec
      o == GetShare(store, doData, now, bearer, reach)
  IN /\ store' = o.store
     /\ doData' = o.doData
     /\ last' = [NoOp("mcp") EXCEPT
                   !.key = bearer,
                   \* history: the body of the create-share that handed out this
                   \* bearer, when that was the operation just before this one
                   !.body = IF last.op = "create" /\ last.status = 200 /\ last.key = bearer
                            THEN last.body ELSE NoBody,
                   !.reach = IF CallsDO(memHit) THEN reach ELSE "none",
                   !.raised = o.raised,
                   !.status = IF o.raised THEN 500 ELSE 0,
                   !.share = o.result,
                   !.memHit = memHit]
     /\ UNCHANGED <<impl, hasDO, now, ticks, issued, issuedAt, revoked>>
     /\ UNCHANGED <<agentVars, clientVars, sseVars, execVars>>

\* housekeeping
PurgeExpired ==
  /\ store' = purgeExpired(store, now)
  /\ last' = NoOp("purge")
  /\ UNCHANGED <<impl, hasDO, doData, now, ticks, issued, issuedAt, revoked>>
  /\ UNCHANGED <<agentVars, clientVars, sseVars, execVars>>

\* the clock advances
Tick(d) ==
  /\ ticks < MaxTicks
  /\ now' = now + d
  /\ ticks' = ticks + 1
  /\ last' = NoOp("tick")
  /\ UNCHANGED <<impl, hasDO, store, doData, issued, issuedAt, revoked>>
  /\ UNCHANGED <<agentVars, clientVars, sseVars, execVars>>

OptBearers == Bearers \cup {None}
OptUsers == Users \cup {None}
Requests == { Request(a, b, c, d) : a \in OptBearers, b \in OptBearers,
                                    c \in OptUsers, d \in OptUsers }
\* to the instant a record issued now expires at, and just past it
Deltas == {SHARE_TTL_MS, SHARE_TTL_MS + 1}

\* the keys a client can present: a token it was handed, a string that is no
\* token, or (to /mcp) a credential or nothing
Presentable == issued \cup {Unknown}

Next ==
  \/ \E i \in 1..NumCallers : CreateShareBad(<<"xano", i>>, None)
  \/ \E i \in 1..NumCallers : CreateShareBad(None, <<"user", i>>)
  \/ \E i \in 1..NumCallers, r \in Reaches : CreateShare(<<"xano", i>>, <<"user", i>>, r)
  \/ RevokeShareBad
  \/ \E t \in Presentable, r \in Reaches : RevokeShareReq(t, r)
  \/ \E b \in Presentable \cup Creds \cup {None}, r \in Reaches : McpFetch(b, r)
  \/ PurgeExpired
  \/ \E d \in Deltas : Tick(d)

Spec == Init /\ [][Next]_vars

\* ------------------------------------------------------ the agent's steps
\* registerTools() up to its await: the getTools call, built from this.props
\* and this.sessionId as they are when it runs
registerToolsCall == RegistryCall("getTools", sessionId, PropsUserId(props), userToken)

\* a processRequest that starts loading the tools without awaiting registerSession
Arrive_toolsFirst(r, in) ==
  /\ pc[r] = "idle"
  /\ inp' = [inp EXCEPT ![r] = in]
  /\ LET sid == IF in.sid # None THEN in.sid
                ELSE IF sessionId = None THEN <<"uuid", r>> ELSE sessionId
         token == finalAuthToken(in.auth)
         user == finalUserId(in.auth)
     IN /\ sessionId' = sid
        /\ IF token # None /\ user # None
           THEN /\ props' = [accessToken |-> token, userId |-> user]
                /\ userToken' = token
                /\ call' = [call EXCEPT ![r] =
                              RegistryCall("registerSession", sid, in.auth.qUser, token)]
                /\ pc' = [pc EXCEPT ![r] = "registerTools"]
           ELSE /\ pc' = [pc EXCEPT ![r] = "readBody"]
                /\ UNCHANGED <<props, userToken, call>>
  /\ UNCHANGED <<toolsRegistered, loc, resp, sessFailed>>
  /\ UNCHANGED regFailed
  /\ UNCHANGED registrations
  /\ UNCHANGED <<shareVars, clientVars, sseVars, execVars>>

\* processRequest up to its first await: session id, credentials, setState,
\* this.props, setUserToken, and the registerSession call
Arrive(r, in) ==
  /\ pc[r] = "idle"
  /\ inp' = [inp EXCEPT ![r] = in]
  /\ LET sid == IF in.sid # None THEN in.sid
                ELSE IF sessionId = None THEN <<"uuid", r>> ELSE sessionId
         token == finalAuthToken(in.auth)
         user == finalUserId(in.auth)
     IN /\ sessionId' = sid
        /\ IF token # None /\ user # None
           THEN /\ props' = [accessToken |-> token, userId |-> user]
                /\ userToken' = token
                /\ call' = [call EXCEPT ![r] =
                              RegistryCall("registerSession", sid, in.auth.qUser, token)]
                /\ pc' = [pc EXCEPT ![r] = "registerSession"]
           ELSE /\ pc' = [pc EXCEPT ![r] = "readBody"]
                /\ UNCHANGED <<props, userToken, call>>
  /\ UNCHANGED <<toolsRegistered, loc, resp, sessFailed>>
  /\ UNCHANGED regFailed
  /\ UNCHANGED registrations
  /\ UNCHANGED <<shareVars, clientVars, sseVars, execVars>>

\* registerSession failed: the catch answers 401
SessionFails(r) ==
  /\ pc[r] = "registerSession"
  /\ sessFailed' = [sessFailed EXCEPT ![r] = TRUE]
  /\ resp' = [resp EXCEPT ![r] = Response(401, -32000, NullId, "error")]
  /\ pc' = [pc EXCEPT ![r] = "done"]
  /\ UNCHANGED <<sessionId, props, userToken, toolsRegistered, inp, loc, call>>
  /\ UNCHANGED regFailed
  /\ UNCHANGED registrations
  /\ UNCHANGED <<shareVars, clientVars, sseVars, execVars>>

\* registerSession returned: register the tools unless that was done
SessionReturns(r) ==
  /\ pc[r] = "registerSession"
  /\ IF ~toolsRegistered
     THEN /\ call' = [call EXCEPT ![r] = registerToolsCall]
          /\ pc' = [pc EXCEPT ![r] = "registerTools"]
     ELSE /\ pc' = [pc EXCEPT ![r] = "readBody"]
          /\ UNCHANGED call
  /\ UNCHANGED <<sessionId, props, userToken, toolsRegistered, inp, loc, resp, sessFailed>>
  /\ UNCHANGED regFailed
  /\ UNCHANGED registrations
  /\ UNCHANGED <<shareVars, clientVars, sseVars, execVars>>

\* registerTools' getTools returned (ok) or threw: the error is warned about
ToolsReturn(r, ok) ==
  /\ pc[r] = "registerTools"
  /\ toolsRegistered' = (toolsRegistered \/ ok)
  /\ pc' = [pc EXCEPT ![r] = "readBody"]
  /\ UNCHANGED <<sessionId, props, userToken, inp, loc, call, resp, sessFailed>>
  /\ UNCHANGED regFailed
  /\ registrations' = IF ok THEN registrations + 1 ELSE registrations
  /\ UNCHANGED <<shareVars, clientVars, sseVars, execVars>>

\* `await request.text()` returned: dispatch on the method
BodyRead(r) ==
  /\ pc[r] = "readBody"
  /\ LET b == IF inp[r].body.json THEN inp[r].body ELSE DefaultRequest
     IN CASE b.method = "initialize" ->
               /\ resp' = [resp EXCEPT ![r] =
                             [Response(200, 0, IdOrOne(b.id), "initialize") EXCEPT
                                !.sessionId = sessionId,
                                !.authenticated = props.accessToken # None]]
               /\ pc' = [pc EXCEPT ![r] = "done"]
               /\ UNCHANGED <<userToken, loc, call>>
          [] b.method = "getTools" ->
               IF ~toolsRegistered
               THEN /\ call' = [call EXCEPT ![r] = registerToolsCall]
                    /\ pc' = [pc EXCEPT ![r] = "listTools"]
                    /\ UNCHANGED <<userToken, loc, resp>>
               ELSE /\ resp' = [resp EXCEPT ![r] =
                                  [Response(200, 0, IdOrOne(b.id), "tools") EXCEPT
                                     !.tools = RegisteredTools(toolsRegistered)]]
                    /\ pc' = [pc EXCEPT ![r] = "done"]
                    /\ UNCHANGED <<userToken, loc, call>>
          [] b.method = "executeTool" ->
               IF b.tool = None
               THEN /\ resp' = [resp EXCEPT ![r] = Response(400, -32602, IdOrOne(b.id), "error")]
                    /\ pc' = [pc EXCEPT ![r] = "done"]
                    /\ UNCHANGED <<userToken, loc, call>>
               ELSE \* executeTool() up to `await this.xanoClient.getTools(...)`
                    LET token == IF props.accessToken # None THEN props.accessToken
                                 ELSE userToken
                        c == RegistryCall("getTools", sessionId, PropsUserId(props), token)
                    IN /\ userToken' = token
                       /\ loc' = [loc EXCEPT ![r] = c]
                       /\ call' = [call EXCEPT ![r] = c]
                       /\ pc' = [pc EXCEPT ![r] = "execGetTools"]
                       /\ UNCHANGED resp
          [] OTHER ->
               /\ resp' = [resp EXCEPT ![r] = Response(400, -32601, IdOrOne(b.id), "error")]
               /\ pc' = [pc EXCEPT ![r] = "done"]
               /\ UNCHANGED <<userToken, loc, call>>
  /\ UNCHANGED <<sessionId, props, toolsRegistered, inp, sessFailed>>
  /\ UNCHANGED regFailed
  /\ UNCHANGED registrations
  /\ UNCHANGED <<shareVars, clientVars, sseVars, execVars>>

\* the getTools branch: registerTools returned or threw; the list is answered
ListReturn(r, ok) ==
  /\ pc[r] = "listTools"
  /\ toolsRegistered' = (toolsRegistered \/ ok)
  /\ resp' = [resp EXCEPT ![r] =
                [Response(200, 0, IdOrOne(inp[r].body.id), "tools") EXCEPT
                   !.tools = RegisteredTools(toolsRegistered \/ ok)]]
  /\ regFailed' = [regFailed EXCEPT ![r] = ~ok]
  /\ pc' = [pc EXCEPT ![r] = "done"]
  /\ UNCHANGED <<sessionId, props, userToken, inp, loc, call, sessFailed>>
  /\ registrations' = IF ok THEN registrations + 1 ELSE registrations
  /\ UNCHANGED <<shareVars, clientVars, sseVars, execVars>>

\* an executeTool that answers a null result when the tool is not listed
ExecToolsFail_nullResult(r, ok) ==
  /\ pc[r] = "execGetTools"
  /\ ~ok \/ inp[r].body.tool \notin RegistryTools
  /\ resp' = [resp EXCEPT ![r] =
                IF ok THEN Response(200, 0, IdOrOne(inp[r].body.id), "result")
                ELSE Response(500, -32603, IdOrOne(inp[r].body.id), "error")]
  /\ regFailed' = [regFailed EXCEPT ![r] = ~ok]
  /\ pc' = [pc EXCEPT ![r] = "done"]
  /\ UNCHANGED <<sessionId, props, userToken, toolsRegistered, inp, loc, call, sessFailed>>
  /\ UNCHANGED registrations
  /\ UNCHANGED <<shareVars, clientVars, sseVars, execVars>>

\* executeTool: getTools threw, or the tool is not in the list: 500
ExecToolsFail(r, ok) ==
  /\ pc[r] = "execGetTools"
  /\ ~ok \/ inp[r].body.tool \notin RegistryTools
  /\ resp' = [resp EXCEPT ![r] = Response(500, -32603, IdOrOne(inp[r].body.id), "error")]
  /\ regFailed' = [regFailed EXCEPT ![r] = ~ok]
  /\ pc' = [pc EXCEPT ![r] = "done"]
  /\ UNCHANGED <<sessionId, props, userToken, toolsRegistered, inp, loc, call, sessFailed>>
  /\ UNCHANGED registrations
  /\ UNCHANGED <<shareVars, clientVars, sseVars, execVars>>

\* executeTool: the tool was found: executeFunction(endpoint, args, sessionId, userId)
\* with the sessionId and userId executeTool read before its await
ExecToolsReturn(r) ==
  /\ pc[r] = "execGetTools"
  /\ inp[r].body.tool \in RegistryTools
  /\ call' = [call EXCEPT ![r] =
                RegistryCall("executeFunction", loc[r].sessionId, loc[r].userId, userToken)]
  /\ pc' = [pc EXCEPT ![r] = "execFunction"]
  /\ UNCHANGED <<sessionId, props, userToken, toolsRegistered, inp, loc, resp, sessFailed>>
  /\ UNCHANGED regFailed
  /\ UNCHANGED registrations
  /\ UNCHANGED <<shareVars, clientVars, sseVars, execVars>>

\* executeFunction returned (200, the result) or threw (500)
ExecReturn(r, ok) ==
  /\ pc[r] = "execFunction"
  /\ resp' = [resp EXCEPT ![r] =
                IF ok THEN Response(200, 0, IdOrOne(inp[r].body.id), "result")
                ELSE Response(500, -32603, IdOrOne(inp[r].body.id), "error")]
  /\ regFailed' = [regFailed EXCEPT ![r] = ~ok]
  /\ pc' = [pc EXCEPT ![r] = "done"]
  /\ UNCHANGED <<sessionId, props, userToken, toolsRegistered, inp, loc, call, sessFailed>>
  /\ UNCHANGED registrations
  /\ UNCHANGED <<shareVars, clientVars, sseVars, execVars>>

\* what callers send: caller i authenticates by URL parameters, with or
\* without its own ?sessionId=; a request may also carry no credential
\* the id most requests carry
SomeId == 7
\* a body that JSON.parse rejects
BadJson == Body(FALSE, "", None, NullId)
Bodies == { Body(TRUE, "initialize", None, SomeId), Body(TRUE, "getTools", None, SomeId),
            Body(TRUE, "tools/list", None, SomeId),
            Body(TRUE, "foo", None, SomeId), Body(TRUE, "foo", None, 0),
            Body(TRUE, "executeTool", None, SomeId),
            Body(TRUE, "executeTool", <<"tool", 1>>, SomeId),
            Body(TRUE, "executeTool", <<"tool", 0>>, SomeId),
            BadJson }
CallerAuth(i) == Request(None, <<"xano", i>>, None, <<"user", i>>)
\* caller i with its credential in the Authorization header and, left over in
\* the URL, the auth_token of another caller
MixedAuth(i) ==
  Request(<<"xano", i>>, <<"xano", (i % NumCallers) + 1>>, None, <<"user", i>>)
Inputs ==
  { Input(CallerAuth(i), <<"sess", i>>, b) : i \in 1..NumCallers, b \in Bodies }
  \cup { Input(CallerAuth(i), None, b) : i \in 1..NumCallers, b \in Bodies }
  \cup { Input(NoRequest, None, b) : b \in Bodies }
  \cup { Input(MixedAuth(i), <<"sess", i>>, Body(TRUE, "initialize", None, SomeId)) :
            i \in 1..NumCallers }

AgentNext ==
  \/ \E r \in Reqs, in \in Inputs : Arrive(r, in)
  \/ \E r \in Reqs : SessionFails(r)
  \/ \E r \in Reqs : SessionReturns(r)
  \/ \E r \in Reqs, ok \in BOOLEAN : ToolsReturn(r, ok)
  \/ \E r \in Reqs : BodyRead(r)
  \/ \E r \in Reqs, ok \in BOOLEAN : ListReturn(r, ok)
  \/ \E r \in Reqs, ok \in BOOLEAN : ExecToolsFail(r, ok)
  \/ \E r \in Reqs : ExecToolsReturn(r)
  \/ \E r \in Reqs, ok \in BOOLEAN : ExecReturn(r, ok)

\* the agent alone: the share store stays as constructed
AgentOnlyInit ==
  /\ impl = "plain"
  /\ hasDO = FALSE
  /\ store = [k \in Tokens |-> NoRec]
  /\ doData = [k \in Tokens |-> NoRec]
  /\ now = 0
  /\ ticks = 0
  /\ issued = {}
  /\ issuedAt = [k \in Tokens |-> -1]
  /\ revoked = {}
  /\ last = NoOp("init")
  /\ ExecInit
  /\ AgentInit
  /\ ClientInit
  /\ SseInit

SpecAgent == AgentOnlyInit /\ [][AgentNext]_vars

\* the share store and the agent as constructed
Constructed ==
  /\ impl = "plain"
  /\ hasDO = FALSE
  /\ store = [k \in Tokens |-> NoRec]
  /\ doData = [k \in Tokens |-> NoRec]
  /\ now = 0
  /\ ticks = 0
  /\ issued = {}
  /\ issuedAt = [k \in Tokens |-> -1]
  /\ revoked = {}
  /\ last = NoOp("init")
  /\ ExecInit
  /\ AgentInit

\* ------------------------------------------------ the registry client's calls
\* the replies a registry can give: unreachable, an HTTP error status, a body
\* with an error member, a body with or without a result
Replies ==
  { Reply(FALSE, FALSE, FALSE, Absent) }
  \cup { Reply(TRUE, ok, err, res) : ok \in BOOLEAN, err \in BOOLEAN,
                                     res \in {Absent, Payload, EmptyList} }

\* one call of a method of the client
ClientCall(method, reply) ==
  /\ method \in ClientMethods(clientImpl)
  /\ clientImpl = "rest" => ~reply.error /\ (reply.ok => reply.result # Absent)
  /\ cCall' = ClientCallRec(method, reply)
  /\ cOut' = ClientRequest(clientImpl, method, reply)
  /\ UNCHANGED clientImpl
  /\ UNCHANGED <<shareVars, agentVars, sseVars, execVars>>

ClientNext ==
  \E m \in ClientMethods("jsonrpc") \cup ClientMethods("rest"), reply \in Replies :
    ClientCall(m, reply)

ClientOnlyInit ==
  /\ Constructed
  /\ SseInit
  /\ clientImpl \in ClientImpls
  /\ cCall = NoClientCall
  /\ cOut = NoOut

SpecClient == ClientOnlyInit /\ [][ClientNext]_vars

\* ------------------------------------------- the streaming connection's steps
\* the step after writing the event `ev`
StepAfter(ev) ==
  IF ev = InitialEvents[1] THEN InitialEvents[2]
  ELSE IF ev = InitialEvents[2] THEN InitialEvents[3]
  ELSE "streaming"

\* a GET with Accept: text/event-stream arrives
SseConnect ==
  /\ ssePc = "idle"
  /\ ssePc' = IF sseImpl = "transport" THEN InitialEvents[1] ELSE "getTools"
  /\ UNCHANGED <<sseImpl, sseTools, events, peer, interval, lifetime, pings, pingAfterEnd>>
  /\ UNCHANGED backpressure
  /\ UNCHANGED <<shareVars, agentVars, clientVars, execVars>>

\* `tools = await this.xanoClient.getTools(...)` returned, or threw and was
\* caught: tools stays []
SseGetTools(ok) ==
  /\ ssePc = "getTools"
  /\ sseTools' = IF ok THEN "listed" ELSE "empty"
  /\ ssePc' = IF sseImpl = "writer" THEN InitialEvents[1] ELSE "start"
  /\ UNCHANGED <<sseImpl, events, peer, interval, lifetime, pings, pingAfterEnd>>
  /\ UNCHANGED backpressure
  /\ UNCHANGED <<shareVars, agentVars, clientVars, execVars>>

\* ReadableStream start(controller): the three events are enqueued and the
\* keep-alive interval is set; the function it returns is never called
SseStart ==
  /\ ssePc = "start"
  /\ events' = events \o InitialEvents
  /\ interval' = TRUE
  /\ ssePc' = "streaming"
  /\ UNCHANGED <<sseImpl, sseTools, peer, lifetime, pings, pingAfterEnd>>
  /\ UNCHANGED backpressure
  /\ UNCHANGED <<shareVars, agentVars, clientVars, execVars>>

\* the handler has returned its Response: the stream's readable side reaches
\* the client only from here on
Returned == ssePc \in {"streaming", "failed"}
\* an awaited writer.write settles: at once when the stream buffers the chunk,
\* and otherwise only once the Response has been returned and is being read
WriteSettles == ~backpressure \/ Returned

\* `await writer.write(...)` of the next opening event: written, or rejected
\* because the peer is gone. onSSE logs a rejection and goes on;
\* transport.start rethrows it. After `ready`, onSSE sets the interval and
\* the two-hour timeout.
SseWrite ==
  /\ sseImpl \in {"writer", "transport"}
  /\ ssePc \in {InitialEvents[i] : i \in 1..3}
  /\ WriteSettles
  /\ events' = IF peer = "open" THEN Append(events, ssePc) ELSE events
  /\ ssePc' = IF peer # "open" /\ sseImpl = "transport" THEN "failed" ELSE StepAfter(ssePc)
  /\ IF sseImpl = "writer" /\ StepAfter(ssePc) = "streaming"
     THEN interval' = TRUE /\ lifetime' = TRUE
     ELSE UNCHANGED <<interval, lifetime>>
  /\ UNCHANGED <<sseImpl, sseTools, peer, pings, pingAfterEnd>>
  /\ UNCHANGED backpressure
  /\ UNCHANGED <<shareVars, agentVars, clientVars, execVars>>

\* the peer disconnects
PeerDisconnects ==
  /\ ssePc # "idle"
  /\ peer = "open"
  /\ peer' = "gone"
  /\ UNCHANGED <<sseImpl, ssePc, sseTools, events, interval, lifetime, pings, pingAfterEnd>>
  /\ UNCHANGED backpressure
  /\ UNCHANGED <<shareVars, agentVars, clientVars, execVars>>

\* the keep-alive interval fires: a ping is written; onSSE's callback clears
\* the interval when the write rejects, the start(controller) callback does not
PingFires ==
  /\ interval
  /\ pings < MaxPings
  /\ pings' = pings + 1
  /\ IF peer = "open"
     THEN /\ events' = Append(events, "ping")
          /\ UNCHANGED <<interval, pingAfterEnd>>
     ELSE /\ pingAfterEnd' = TRUE
          /\ interval' = (sseImpl # "writer")
          /\ UNCHANGED events
  /\ UNCHANGED <<sseImpl, ssePc, sseTools, peer, lifetime>>
  /\ UNCHANGED backpressure
  /\ UNCHANGED <<shareVars, agentVars, clientVars, execVars>>

\* onSSE's setTimeout fires after two hours: clearInterval, writer.close()
LifetimeElapses ==
  /\ lifetime
  /\ lifetime' = FALSE
  /\ interval' = FALSE
  /\ peer' = IF peer = "open" THEN "closed" ELSE peer
  /\ UNCHANGED <<sseImpl, ssePc, sseTools, events, pings, pingAfterEnd>>
  /\ UNCHANGED backpressure
  /\ UNCHANGED <<shareVars, agentVars, clientVars, execVars>>

SseNext ==
  \/ SseConnect
  \/ \E ok \in BOOLEAN : SseGetTools(ok)
  \/ SseStart
  \/ SseWrite
  \/ PeerDisconnects
  \/ PingFires
  \/ LifetimeElapses

SseOnlyInit ==
  /\ Constructed
  /\ ClientInit
  /\ sseImpl \in SseImpls
  /\ ssePc = "idle"
  /\ sseTools = "unset"
  /\ events = <<>>
  /\ peer = "open"
  /\ interval = FALSE
  /\ lifetime = FALSE
  /\ pings = 0
  /\ pingAfterEnd = FALSE
  /\ backpressure \in BOOLEAN

SpecSSE == SseOnlyInit /\ [][SseNext]_vars

\* the handler's own steps are taken whenever they can be: an awaited promise
\* that settles resumes the handler
SseFairness ==
  /\ WF_vars(SseConnect)
  /\ WF_vars(\E ok \in BOOLEAN : SseGetTools(ok))
  /\ WF_vars(SseStart)
  /\ WF_vars(SseWrite)
SpecSSELive == SseOnlyInit /\ [][SseNext]_vars /\ SseFairness

\* ------------------------------------------------ dynamicExecuteTool's steps
\* dynamicExecuteTool(toolDef, args) up to its first await: the guard on the
\* directive and the dispatch on its type
dynamicExecuteTool(td) ==
  /\ exPc = "idle"
  /\ toolDef' = td
  /\ IF td.execution = NoExecution \/ td.execution = ""
     THEN /\ exOut' = Thrown("Invalid execution config")
          /\ exPc' = "logError"
          /\ UNCHANGED ran
     ELSE IF ExecutorFor(td.execution) # "none"
     THEN /\ ran' = Append(ran, ExecutorFor(td.execution))
          /\ exPc' = "executor"
          /\ UNCHANGED exOut
     ELSE /\ exOut' = Thrown("Unsupported execution type")
          /\ exPc' = "logError"
          /\ UNCHANGED ran
  /\ UNCHANGED exResult
  /\ UNCHANGED <<shareVars, agentVars, clientVars, sseVars>>

\* the awaited executor returns `value` or throws
ExecutorReturns(ok, value) ==
  /\ exPc = "executor"
  /\ IF ok
     THEN /\ exResult' = value
          /\ exPc' = "logUsage"
          /\ UNCHANGED exOut
     ELSE /\ exOut' = Thrown("executor")
          /\ exPc' = "logError"
          /\ UNCHANGED exResult
  /\ UNCHANGED <<toolDef, ran>>
  /\ UNCHANGED <<shareVars, agentVars, clientVars, sseVars>>

\* logToolUsage returns (it swallows its own failures): on the success path
\* the transformed result is wrapped and returned, in the catch the error is
\* rethrown
LogToolUsageReturns ==
  /\ exPc \in {"logUsage", "logError"}
  /\ IF exPc = "logUsage"
     THEN LET transformedResult ==
                IF toolDef.response_transformation # NoTransformation
                THEN transformResponse(exResult, toolDef.response_transformation)
                ELSE exResult
          IN /\ exOut' = Envelope(transformedResult)
             /\ exPc' = "returned"
     ELSE /\ exPc' = "thrown"
          /\ UNCHANGED exOut
  /\ UNCHANGED <<toolDef, ran, exResult>>
  /\ UNCHANGED <<shareVars, agentVars, clientVars, sseVars>>

\* what an executor can return
ExecutorValues == {StringValue(Payload), ObjectValue(Payload)}
ExecNext ==
  \/ \E td \in ToolDefs : dynamicExecuteTool(td)
  \/ \E ok \in BOOLEAN, value \in ExecutorValues : ExecutorReturns(ok, value)
  \/ LogToolUsageReturns

ExecOnlyInit ==
  /\ Constructed
  /\ ClientInit
  /\ SseInit

SpecExec == ExecOnlyInit /\ [][ExecNext]_vars

\* ------------------------------------------------------------------ claims
\* The spec's expiry of a token: 24 h after create-share issued it.
Expired(token) ==
  token \in Tokens /\ issuedAt[token] # -1 /\ now > issuedAt[token] + SHARE_TTL_MS

\* C1: after revokeShare(T) has completed, every later getShare(T) returns
\* not-found, in the memory store, the Durable Object store and the cached store.
C1_RevokedNotFound ==
  (last.op = "mcp" /\ ~last.raised /\ last.key \in revoked) => last.share = NoRec

\* C2: once the clock has passed the expiry of a stored token, getShare(T)
\* returns not-found although the token was never revoked, and the memory Map
\* no longer holds the record after that lookup.
C2_ExpiredNotFound ==
  (last.op = "mcp" /\ ~last.raised /\ Expired(last.key))
    => (last.share = NoRec /\ store[last.key] = NoRec)

\* C2 witness: a never-revoked token whose record the memory store still held
\* has been looked up after its expiry.
C2_Witness ==
  /\ last.op = "mcp" /\ ~last.raised /\ Expired(last.key)
  /\ last.key \notin revoked /\ last.memHit /\ ~hasDO

\* C3: a getShare(T) that immediately follows a completed saveShare(T, c, u) of
\* a fresh token T, and whose Durable Object call (if any) succeeds, returns a
\* record with xanoToken c and userId u.
C3_SaveThenGet ==
  (last.op = "mcp" /\ last.body # NoBody /\ last.reach # "throw")
    => (~last.raised /\ last.share.xanoToken = last.body.xanoToken
                     /\ last.share.userId = last.body.userId)

\* C3 witness: a token saved in the Durable Object has been looked up right away.
C3_Witness ==
  last.op = "mcp" /\ last.body # NoBody /\ last.reach = "ok" /\ last.share # NoRec

\* C4: a token that has expired or has been revoked never again resolves to a
\* credential.
C4_NoRevival ==
  (last.op = "mcp" /\ last.share # NoRec)
    => (last.key \notin revoked /\ ~Expired(last.key))

\* the requests to /mcp whose bearer is b
RequestsWith(b) == { q \in Requests : ExtractBearer(q) = b }

\* what the two worker entries answer to request q once getShare returned share
Answers(q, share) == { RouteMcp(q, share), RouteMcpGuarded(q, share) }

\* C5: when the bearer of a /mcp request resolves as a share token, the request
\* is forwarded with the record's xanoToken as Authorization bearer and its
\* userId as x-user-id, and the agent serves it under exactly these; the share
\* token is not the upstream credential.
C5_ShareSubstituted ==
  (last.op = "mcp" /\ ~last.raised /\ last.share # NoRec)
    => \A q \in RequestsWith(last.key) : \A a \in Answers(q, last.share) :
         /\ a.forwarded
         /\ a.req.hdrAuth = last.share.xanoToken
         /\ a.req.hdrUser = last.share.userId
         /\ LET served == onConnect(a.req)
            IN /\ ~served.raised
               /\ served.accessToken = last.share.xanoToken
               /\ served.userId = last.share.userId
               /\ served.accessToken # last.key

\* C5 witness: a request bearing a share token has been resolved.
C5_Witness ==
  last.op = "mcp" /\ ~last.raised /\ last.share # NoRec /\ last.key \in Tokens

\* C6: a /mcp request with no bearer, or with a bearer that is no share token
\* and no user id, is answered 401 and is not forwarded to the MCP Durable Object.
C6_NoCredentialRejected ==
  (last.op = "mcp" /\ ~last.raised /\ last.share = NoRec)
    => \A q \in RequestsWith(last.key) :
         (last.key = None \/ ExtractUserId(q) = None)
           => \A a \in Answers(q, last.share) : ~a.forwarded /\ a.status = 401

\* C7: when the Durable Object call of getShare or saveShare fails, the
\* operation raises; it neither reports not-found nor falls back to the Map.
C7_StoreFailsLoudly ==
  (last.op \in {"mcp", "create"} /\ last.reach = "throw") => last.raised

\* C8: revoking a token that was never issued, was already revoked or has
\* expired succeeds with {ok: true}, and revoking once more changes nothing.
C8_RevokeIdempotent ==
  (last.op = "revoke" /\ last.key # None /\ last.reach # "throw")
    => /\ last.status = 200 /\ ~last.raised
       /\ RevokeShare(store, doData, now, last.key, "ok")
            = Outcome(FALSE, NoRec, store, doData)

\* C8 witness: an issued token under which nothing was stored any more (it had
\* been revoked, or had expired and been evicted) has been revoked.
C8_Witness ==
  last.op = "revoke" /\ last.status = 200 /\ ~last.memHit /\ last.key \in issued

\* a request that brought its own credential, user id and session id
OwnIdentity(r) ==
  inp[r].sid # None /\ inp[r].auth.qAuth # None /\ inp[r].auth.qUser # None

\* C9: every registry call of a request that brought its own credential, user
\* id and session id is made with exactly these, however requests interleave.
C9_CallsUseOwnIdentity ==
  \A r \in Reqs :
    (call[r] # NoCall /\ OwnIdentity(r))
      => /\ call[r].sessionId = inp[r].sid
         /\ call[r].userId = inp[r].auth.qUser
         /\ call[r].token = inp[r].auth.qAuth

\* C10: a request whose session registration failed is still served: it is
\* answered by the dispatch of its body, not by an authentication error.
C10_BookkeepingBestEffort ==
  \A r \in Reqs : (pc[r] = "done" /\ sessFailed[r]) => resp[r].code # -32000


\* a request the agent has answered from the dispatch of its body
Dispatched(r) == pc[r] = "done" /\ ~sessFailed[r]
\* the methods section 3 of the protocol handles
HandledMethods == {"initialize", "tools/list", "getTools", "executeTool"}

\* C12: when the registry call behind a request's tool listing or tool
\* execution failed, the request is answered with a JSON-RPC error, never
\* with a result.
C12_RegistryFailureSurfaced ==
  \A r \in Reqs :
    (pc[r] = "done" /\ regFailed[r]) => (resp[r].code # 0 /\ resp[r].kind = "error")

\* C14: a POST whose body parses and whose method is none of the handled
\* methods is answered with error code -32601 and the id of the request.
C14_UnknownMethod ==
  \A r \in Reqs :
    (Dispatched(r) /\ inp[r].body.json /\ inp[r].body.method \notin HandledMethods)
      => (resp[r].code = -32601 /\ resp[r].id = inp[r].body.id)

\* C15: tools/list and getTools are both answered by the tool listing, with a
\* result carrying the tools array; initialize is answered by its own handler.
C15_DispatchByMethod ==
  \A r \in Reqs :
    (Dispatched(r) /\ inp[r].body.json) =>
      /\ inp[r].body.method \in {"tools/list", "getTools"}
           => (resp[r].kind = "tools" /\ resp[r].code = 0)
      /\ inp[r].body.method = "initialize"
           => (resp[r].kind = "initialize" /\ resp[r].code = 0)

\* C16: a body that is not valid JSON, and an executeTool without a tool name,
\* are answered with a 400-class JSON-RPC error.
C16_MalformedRejected ==
  \A r \in Reqs :
    (Dispatched(r) /\ (~inp[r].body.json
                         \/ (inp[r].body.method = "executeTool" /\ inp[r].body.tool = None)))
      => (resp[r].status \in 400..499 /\ resp[r].code # 0)

\* C17: executeTool for a tool name that the registry's list does not hold is
\* answered with a JSON-RPC error, never with a result.
C17_ToolNotFound ==
  \A r \in Reqs :
    (Dispatched(r) /\ inp[r].body.json /\ inp[r].body.method = "executeTool"
       /\ inp[r].body.tool # None /\ inp[r].body.tool \notin RegistryTools)
      => (resp[r].kind = "error" /\ resp[r].code # 0 /\ resp[r].status >= 400)
\* the registry's list came back and did not hold the tool asked for
C17_Witness ==
  \E r \in Reqs :
    /\ Dispatched(r) /\ inp[r].body.method = "executeTool"
    /\ inp[r].body.tool # None /\ inp[r].body.tool \notin RegistryTools
    /\ call[r].method = "getTools" /\ ~regFailed[r] /\ resp[r].code = -32603

\* C19: a request that carries an Authorization: Bearer header is served with
\* the bearer of that header, whatever its auth_token query parameter says.
C19_HeaderBeforeQuery ==
  \A r \in Reqs :
    (pc[r] = "registerSession" /\ inp[r].auth.hdrAuth # None)
      => call[r].token = inp[r].auth.hdrAuth

\* a registry call that failed: the registry was not reached, answered a
\* non-2xx status, or answered a body with an error member
ReplyFailed(reply) == ~reply.reached \/ ~reply.ok \/ reply.error

\* C11: a registry-client method throws when its call failed, and on success
\* returns the decoded payload; it never returns a value in place of a failure.
C11_ClientRaisesOnFailure ==
  cCall # NoClientCall =>
    /\ ReplyFailed(cCall.reply) => cOut.raised
    /\ (~ReplyFailed(cCall.reply) /\ cCall.reply.result # Absent
          /\ cCall.method \notin BooleanMethods)
         => (~cOut.raised /\ cOut.value = cCall.reply.result)

C18_NoPingAfterEnd == ~pingAfterEnd

\* C20: in every reachable state every share record, in the memory Map and in
\* the Durable Object storage, expires at the instant its token was created
\* plus 24 hours; a lookup that copies a Durable Object record into the memory
\* cache copies its expiresAt unchanged.
C20_ExpiresAtFixed ==
  \A k \in Tokens :
    /\ store[k] # NoRec => store[k].expiresAt = issuedAt[k] + SHARE_TTL_MS
    /\ doData[k] # NoRec => doData[k].expiresAt = issuedAt[k] + SHARE_TTL_MS
\* a lookup at a later instant has just copied the object's record into the cache
C20_Witness ==
  /\ impl = "cached" /\ last.op = "mcp" /\ ~last.memHit /\ last.share # NoRec
  /\ store[last.key] = last.share /\ now > issuedAt[last.key]


\* C21: POST /api/create-share with a non-empty xanoToken and userId (and a
\* store that does not fail) answers 200 with a token never handed out
\* before, under which the record of that credential and user is stored; with
\* either field empty it answers 400 and leaves the share store as it was.
C21_CreateShare ==
  [][ last'.op = "create" =>
        /\ (last'.body.xanoToken = None \/ last'.body.userId = None)
             => /\ last'.status = 400
                /\ store' = store /\ doData' = doData /\ issued' = issued
        /\ (last'.body.xanoToken # None /\ last'.body.userId # None
               /\ last'.reach # "throw")
             => last'.status = 200
        /\ last'.status = 200
             => /\ last'.key \in Tokens \ issued
                /\ LET rec == ShareRecord(last'.body.xanoToken, last'.body.userId,
                                          now + SHARE_TTL_MS)
                   IN store'[last'.key] = rec \/ doData'[last'.key] = rec
    ]_vars
\* a second share has been created while the first is still stored
C21_Witness ==
  /\ last.op = "create" /\ last.status = 200 /\ last.key = <<"share", 2>>
  /\ (store[<<"share", 1>>] # NoRec \/ doData[<<"share", 1>>] # NoRec)


\* where a share record is persisted: the Durable Object when SHARE_DO is
\* bound, the memory Map otherwise
Persisted(token) ==
  token \in Tokens /\ (IF hasDO THEN doData[token] # NoRec ELSE store[token] # NoRec)

\* C28: create-share answers with an mcpToken only if the record was
\* persisted: a Durable Object save that fails makes the caller get an error.
C28_TokenOnlyIfPersisted ==
  (last.op = "create" /\ last.status = 200) => Persisted(last.key)


\* C29: a lookup and a revoke of T change no record of another token, a
\* lookup removes no unexpired record, and a purge removes exactly the records
\* of the memory Map whose expiresAt has passed.
C29_Frame ==
  [][ /\ last'.op \in {"mcp", "revoke"} =>
           \A k \in Tokens \ {last'.key} : store'[k] = store[k] /\ doData'[k] = doData[k]
      /\ last'.op = "mcp" =>
           \A k \in Tokens :
             /\ (store[k] # NoRec /\ ~(store[k].expiresAt < now)) => store'[k] = store[k]
             /\ doData'[k] = doData[k]
      /\ last'.op = "purge" =>
           /\ doData' = doData
           /\ \A k \in Tokens :
                store'[k] = IF store[k] # NoRec /\ store[k].expiresAt < now
                            THEN NoRec ELSE store[k]
    ]_vars
\* a purge has run with one record expired and another not
C29_Witness ==
  /\ last.op = "purge" /\ ~hasDO
  /\ store[<<"share", 1>>] = NoRec /\ Expired(<<"share", 1>>) /\ <<"share", 1>> \notin revoked
  /\ store[<<"share", 2>>] # NoRec


\* the requests that present the credential c and the user id u directly
DirectRequests(c, u) ==
  { d \in Requests : ExtractBearer(d) = c /\ ExtractUserId(d) = u }

C22_StepsInOrder ==
  [][ \A r \in Reqs : pc'[r] # pc[r] =>
        /\ pc'[r] = "registerSession" => pc[r] = "idle"
        /\ pc'[r] = "registerTools" => pc[r] = "registerSession"
        /\ pc'[r] = "readBody" =>
             \/ pc[r] = "registerTools"
             \/ pc[r] = "registerSession" /\ toolsRegistered
             \/ pc[r] = "idle" /\ call'[r] = NoCall
        /\ pc'[r] \in {"listTools", "execGetTools"} => pc[r] = "readBody"
        /\ pc'[r] = "execFunction" => pc[r] = "execGetTools"
        /\ (pc'[r] = "done" /\ ~sessFailed'[r])
             => pc[r] \in {"readBody", "listTools", "execGetTools", "execFunction"}
    ]_vars
\* a request that registered its session, loaded the tools and was dispatched
C22_Witness ==
  \E r \in Reqs :
    /\ pc[r] = "done" /\ ~sessFailed[r] /\ inp[r].auth.qAuth # None
    /\ registrations > 0 /\ resp[r].kind = "tools"

\* C23: a request that brings no sessionId is served under a session id the
\* server generated for it; a request that brings ?sessionId=x is served under x.
C23_SessionIds ==
  \A r \in Reqs :
    pc[r] = "registerSession" =>
      IF inp[r].sid # None THEN call[r].sessionId = inp[r].sid
      ELSE /\ call[r].sessionId[1] = "uuid"
           /\ \A o \in Reqs \ {r} : inp[o] # NoInput => call[r].sessionId # inp[o].sid

\* C25: a request that carries no credential is not served with a credential
\* of an earlier caller: its initialize reports authenticated = false and its
\* registry calls carry no token and no user id.
C25_NoBorrowedCredential ==
  \A r \in Reqs :
    (inp[r] # NoInput /\ inp[r].auth = NoRequest) =>
      /\ (pc[r] = "done" /\ resp[r].kind = "initialize") => ~resp[r].authenticated
      /\ call[r] # NoCall => (call[r].token = None /\ call[r].userId = None)

\* C26: the registry's tool is registered with the MCP server at most once on
\* an agent instance, however requests repeat and interleave.
C26_RegisteredOnce == registrations <= 1


\* C27: every streaming request gets its Response: the handler, once it has
\* started, reaches the return of a Response and is not left waiting on a
\* write of an opening event.
C27_ResponseReturned == (ssePc # "idle") ~> Returned


====
